---- MODULE Spec2Model ----
(***************************************************************************)
(* Model of esdrasgc/port_scanner, src/main.py.                            *)
(*                                                                         *)
(* PortScannerApp (the Qt window) owns a progress bar, an output area and  *)
(* the reference to the current PortScannerWorker.  A worker is a QThread  *)
(* whose run() resolves the host, submits one scan_port task per port to   *)
(* a ThreadPoolExecutor, waits for the pool to drain and emits the report. *)
(* Signals emitted by the worker threads are queued to the GUI thread and  *)
(* delivered there one by one.                                             *)
(***************************************************************************)
EXTENDS Integers, Sequences, FiniteSets, TLC

VARIABLES
    progress_bar,   \* QProgressBar: [minimum, maximum, value]
    output_area,    \* QTextEdit text (a sequence of lines)
    worker,         \* PortScannerApp.worker: id of the current worker, 0 = None
    app_exc,        \* exception that escaped the scan_ports slot, "none" if none
    presses,        \* number of clicks on the Scan button so far
    budget,         \* number of clicks the scenario allows
    workers,        \* per PortScannerWorker: its thread, pool, accumulator, signals
    events,         \* queued signal deliveries pending in the GUI event loop
    target,         \* the network: what a connect to each port yields
    registry,       \* the call of load_well_known_ports: file, lines read, table
    last_input      \* whether the range text of the last click was well formed

vars == <<progress_bar, output_area, worker, app_exc, presses, budget,
          workers, events, target, registry, last_input>>

----------------------------------------------------------------------------
(* Bounds of the model *)

\* ports 0..MaxPort can be typed into the range field
MaxPort == 3

\* a range typed into the field has at most MaxRange ports
MaxRange == 3

\* number of PortScannerWorker objects the model has room for
MaxScans == 2

Workers == 1..MaxScans

\* line 34: ThreadPoolExecutor(max_workers=100)
max_workers == 100

----------------------------------------------------------------------------
(* Text of the input fields: a string is a sequence of characters *)

Digits == <<"0", "1", "2", "3", "4", "5", "6", "7", "8", "9">>

IsDigit(c) == \E i \in 1..10 : Digits[i] = c

DigitVal(c) == (CHOOSE i \in 1..10 : Digits[i] = c) - 1

\* str(n) for n >= 0
RECURSIVE Fmt(_)
Fmt(n) == IF n < 10 THEN <<Digits[n + 1]>>
          ELSE Fmt(n \div 10) \o <<Digits[(n % 10) + 1]>>

\* '-' in port_range
HasDash(text) == \E i \in 1..Len(text) : text[i] = "-"

\* port_range.split('-'): the pieces between the dashes, empty pieces kept
RECURSIVE SplitFrom(_, _, _)
SplitFrom(text, i, cur) ==
    IF i > Len(text) THEN <<cur>>
    ELSE IF text[i] = "-" THEN <<cur>> \o SplitFrom(text, i + 1, <<>>)
    ELSE SplitFrom(text, i + 1, Append(cur, text[i]))

Split(text) == SplitFrom(text, 1, <<>>)

\* str.strip() as int() applies it: leading and trailing blanks removed
RECURSIVE Strip(_)
Strip(s) == IF s = <<>> THEN s
            ELSE IF Head(s) = " " THEN Strip(Tail(s))
            ELSE IF s[Len(s)] = " " THEN Strip(SubSeq(s, 1, Len(s) - 1))
            ELSE s

\* value of a run of digits in which single underscores may separate digits
RECURSIVE DigitsVal(_, _)
DigitsVal(s, acc) ==
    IF s = <<>> THEN acc
    ELSE IF Head(s) = "_" THEN DigitsVal(Tail(s), acc)
    ELSE DigitsVal(Tail(s), 10 * acc + DigitVal(Head(s)))

WellFormedDigits(s) ==
    /\ s # <<>>
    /\ \A i \in 1..Len(s) : IsDigit(s[i]) \/ s[i] = "_"
    /\ IsDigit(s[1]) /\ IsDigit(s[Len(s)])
    /\ \A i \in 1..(Len(s) - 1) : ~(s[i] = "_" /\ s[i + 1] = "_")

\* int(s): [ok |-> TRUE, val |-> n], or ok = FALSE where int raises ValueError.
\* A '-' sign cannot reach int here because the text was split on '-'.
PyInt(s) ==
    LET t == Strip(s)
        u == IF t # <<>> /\ Head(t) = "+" THEN Tail(t) ELSE t
    IN  IF WellFormedDigits(u) THEN [ok |-> TRUE, val |-> DigitsVal(u, 0)]
        ELSE [ok |-> FALSE, val |-> 0]

\* lines 143-144: the text gets past the parsing, that is it has a dash,
\* splits on '-' into exactly two parts, and int() converts both
Conforming(text) ==
    /\ HasDash(text)
    /\ Len(Split(text)) = 2
    /\ \A i \in 1..2 : PyInt(Split(text)[i]).ok

----------------------------------------------------------------------------
(* load_well_known_ports, lines 69-80.  A line is a sequence of pieces; a   *)
(* piece is one character or a run of letters such as "ftp".                 *)

\* line.split(): the runs of pieces between blanks
RECURSIVE SplitBlanks(_, _, _)
SplitBlanks(line, i, cur) ==
    IF i > Len(line) THEN (IF cur = <<>> THEN <<>> ELSE <<cur>>)
    ELSE IF line[i] = " "
         THEN (IF cur = <<>> THEN <<>> ELSE <<cur>>) \o SplitBlanks(line, i + 1, <<>>)
    ELSE SplitBlanks(line, i + 1, Append(cur, line[i]))

\* str.isdigit(): every character is a digit; the superscript two is one
isdigit(tok) == tok # <<>> /\ \A i \in 1..Len(tok) : IsDigit(tok[i]) \/ tok[i] = "²"

\* a token as the string it is: a single piece, or the sequence of its pieces
TokStr(tok) == IF Len(tok) = 1 THEN tok[1] ELSE tok

\* d[port] = service
DictSet(d, port, service) ==
    [p \in (DOMAIN d) \cup {port} |-> IF p = port THEN service ELSE d[p]]

\* line 76: parts[1].isdigit()
digit_check(tok) == isdigit(tok)

\* lines 73-79: one iteration of the loop over the lines; int() raises
\* ValueError on a token that is not made of ASCII digits
load_line(table, line) ==
    IF (line # <<>> /\ line[1] = "#") \/ Strip(line) = <<>>
    THEN [exc |-> "none", table |-> table]
    ELSE LET parts == SplitBlanks(line, 1, <<>>)
         IN  IF Len(parts) >= 2 /\ digit_check(parts[2])
             THEN IF PyInt(parts[2]).ok
                  THEN [exc |-> "none",
                        table |-> DictSet(table, PyInt(parts[2]).val,
                                          IF Len(parts) > 2 THEN TokStr(parts[3])
                                          ELSE "Unknown")]
                  ELSE [exc |-> "ValueError", table |-> table]
             ELSE [exc |-> "none", table |-> table]

\* lines 70-80: the whole call, from line i on
RECURSIVE load_from(_, _, _)
load_from(file, i, table) ==
    IF i > Len(file) THEN [exc |-> "none", table |-> table]
    ELSE IF load_line(table, file[i]).exc # "none"
         THEN [exc |-> load_line(table, file[i]).exc, table |-> table]
    ELSE load_from(file, i + 1, load_line(table, file[i]).table)

load_well_known_ports(file) == load_from(file, 1, <<>>)

----------------------------------------------------------------------------
(* The inputs the scenarios draw from *)

\* number of lines of a reference file
MaxLines == 2

SampleLines ==
    { <<" ">>,
      <<"#", " ", "1", " ", "x">>,
      <<"ftp">>,
      <<"ftp", " ", "tcp">>,
      <<"ftp", " ", "2", "1">>,
      <<"ftp", " ", "2", "1", " ", "tcp">>,
      <<"ssh", " ", " ", "2", "1", " ", "x">>,
      <<" ", "#", " ", "7", " ", "echo">>,
      <<"ftp", " ", "-", "1">>,
      <<"sq", " ", "²">> }

RegistryFiles == UNION { [1..n -> SampleLines] : n \in 0..MaxLines }

\* the reference file of the scan scenarios
WellKnownFile ==
    << <<"#", " ", "name", " ", "port", " ", "service">>,
       <<>>,
       <<"compressnet", " ", "2", " ", "management-utility">>,
       <<"compressnet", " ", "3", " ", "compressnet">> >>

Hosts == {"127.0.0.1", "localhost", "not a host!!", "a..b"}

RangeTexts ==
    { Fmt(r[1]) \o <<"-">> \o Fmt(r[2]) :
        r \in {q \in (0..MaxPort) \X (0..MaxPort) : q[2] - q[1] < MaxRange} }
    \cup { <<"6","5","5","3","5","-","6","5","5","3","6">>,
           <<" ","1","-","+","2"," ">>,
           <<"2">>, <<>>, <<"1","-">>, <<"-","1">>,
           <<"1","-","2","-","3">>, <<"a","-","1">>, <<"1","_","_","0","-","2">> }

TargetPorts == (0..(MaxPort + 1)) \cup {65535}

\* what one probe can meet: connect_ex returning 0 or an errno, or an
\* exception raised by socket() or by connect_ex
ProbeOutcomes == <<"connected", "ENETUNREACH", "connected", "EWOULDBLOCK",
                   "ECONNREFUSED", "gaierror">>

\* the networks of the scenarios: the outcomes above laid over the ports from
\* three starting points, and one where every probe raises
Targets ==
    { [p \in TargetPorts |-> ProbeOutcomes[((p + k) % Len(ProbeOutcomes)) + 1]] :
        k \in {0, 2, 3} }
    \cup { [p \in TargetPorts |-> "EMFILE"] }

----------------------------------------------------------------------------
(* Library behaviour the program relies on *)

\* socket.getaddrinfo(host, None): the families of the entries returned, or
\* the exception raised
getaddrinfo(host) ==
    CASE host = "127.0.0.1"    -> [exc |-> "none", families |-> <<"AF_INET">>]
      [] host = "localhost"    -> [exc |-> "none", families |-> <<"AF_INET6", "AF_INET">>]
      [] host = "not a host!!" -> [exc |-> "gaierror", families |-> <<>>]
      [] OTHER                 -> [exc |-> "UnicodeError", families |-> <<>>]

\* service names, as the sequences of their characters
compressnet == <<"c", "o", "m", "p", "r", "e", "s", "s", "n", "e", "t">>
management_utility == <<"m", "a", "n", "a", "g", "e", "m", "e", "n", "t", "-", "u", "t", "i", "l", "i", "t", "y">>
Unknown == <<"U", "n", "k", "n", "o", "w", "n">>

\* the NUL character
NUL == "\\0"

\* the OS service database read by socket.getservbyport(port, 'tcp')
etc_services == [p \in {2} |-> compressnet]

\* the line of /etc/services that holds the entry of port p
services_line(p) ==
    etc_services[p] \o <<"\t">> \o Fmt(p) \o <<"/", "t", "c", "p", "\n">>

\* the lines of /etc/services
services_file == {services_line(p) : p \in DOMAIN etc_services}

\* the table load_well_known_ports returned at start-up
well_known_ports == [p \in {2, 3} |-> IF p = 2 THEN management_utility ELSE compressnet]

\* s.connect_ex((host, port)) on a fresh socket: ports outside 0..65535 raise
connect_ex(port) ==
    IF port < 0 \/ port > 65535 THEN "OverflowError" ELSE target[port]

\* QProgressBar.setRange(minimum, maximum): nothing happens when both are
\* as before; else the maximum is kept at or above the minimum, and a value
\* that falls outside the new range is reset to minimum - 1
setRange(pb, minimum, maximum) ==
    IF minimum = pb.minimum /\ maximum = pb.maximum THEN pb
    ELSE LET mx == IF maximum < minimum THEN minimum ELSE maximum
         IN  [minimum |-> minimum, maximum |-> mx,
              value |-> IF pb.value < minimum - 1 \/ pb.value > mx
                        THEN minimum - 1 ELSE pb.value]

\* QProgressBar.setMaximum(maximum), that is
\* setRange(qMin(minimum, maximum), maximum): a maximum below the minimum
\* lowers the minimum to it
setMaximum(pb, maximum) ==
    setRange(pb, IF maximum < pb.minimum THEN maximum ELSE pb.minimum, maximum)

\* QProgressBar.setValue: a value outside the range is ignored
setValue(pb, v) ==
    IF v = pb.value THEN pb
    ELSE IF (v > pb.maximum \/ v < pb.minimum) /\ (pb.maximum # 0 \/ pb.minimum # 0)
    THEN pb
    ELSE [pb EXCEPT !.value = v]

----------------------------------------------------------------------------
(* PortScannerWorker: pure parts *)

Raises(outcome) == outcome \in {"EMFILE", "gaierror", "OverflowError"}

\* line 49: socket.getservbyport(port, 'tcp') finds an entry for the port;
\* when it finds none it raises OSError
getservbyport_found(port) == port \in DOMAIN etc_services

\* getservbyport returns a pointer to the start of one buffer of the C
\* library that every lookup of the process rewrites while it searches the
\* database: each line is read into it whole, with a NUL after its line
\* break, then the line break and the blank after the name are replaced by
\* NUL. These are the places of a line where the buffer can hold NUL
NulSites(line) ==
    { CHOOSE i \in 1..Len(line) :
          /\ line[i] \in {"\t", " "}
          /\ \A j \in 1..(i - 1) : line[j] \notin {"\t", " "},
      Len(line), Len(line) + 1 }

\* the characters the buffer can hold at place i while lookups rewrite it
BufferChars(i) ==
    { line[i] : line \in {l \in services_file : i <= Len(l)} }
    \cup (IF \E l \in services_file : i \in NulSites(l) THEN {NUL} ELSE {})

\* the lengths a read of the buffer can find: up to a place that held NUL
BufferLengths == { i - 1 : i \in UNION { NulSites(l) : l \in services_file } }

\* the places among the first n where the buffer can hold different
\* characters
TornPlaces(n) == { i \in 1..n : Cardinality(BufferChars(i)) > 1 }

\* what a read of n characters can return: the length is measured first and
\* the characters are copied afterwards, each as the buffer holds it then
BufferReads(n) ==
    { [i \in 1..n |-> IF i \in TornPlaces(n) THEN pick[i]
                      ELSE CHOOSE c \in BufferChars(i) : TRUE] :
        pick \in { f \in [TornPlaces(n) -> UNION { BufferChars(i) : i \in TornPlaces(n) }] :
                      \A i \in TornPlaces(n) : f[i] \in BufferChars(i) } }

\* every name a read of the buffer can return while another lookup of the
\* process rewrites it
servent_buffer == UNION { BufferReads(n) : n \in BufferLengths }

\* lines 47-51: the service names the lookup of an open port can give: the
\* entry of the port, whatever the buffer holds if another thread has called
\* getservbyport since this call returned, 'Unknown' when there is no entry
service_names(port, clobbered) ==
    IF ~getservbyport_found(port) THEN {Unknown}
    ELSE IF clobbered THEN servent_buffer
    ELSE {etc_services[port]}

\* lines 42-56: the tuple scan_port appends for a probe outcome
scan_port_result(port, outcome, service) ==
    IF Raises(outcome) THEN <<port, "Error">>
    ELSE IF outcome = "connected" THEN <<port, "Open", service>>
    ELSE <<port, "Closed">>

\* an append that writes at the length it read before another thread appended
list_append_racy(results, x) ==
    IF Len(results) >= 2 THEN [results EXCEPT ![Len(results)] = x]
    ELSE Append(results, x)

\* results.append(x)
list_append(results, x) == Append(results, x)

\* order of Python strings on the status labels
StrRank(s) ==
    CASE s = "Closed" -> 1 [] s = "Error" -> 2 [] s = "Open" -> 3
      [] OTHER -> 0

\* the characters of the service names, in the order of their code points
CodePoints ==
    <<NUL, "\t", "\n", " ", "-", "/",
      "0", "1", "2", "3", "4", "5", "6", "7", "8", "9", "U",
      "a", "b", "c", "d", "e", "f", "g", "h", "i", "j", "k", "l", "m",
      "n", "o", "p", "q", "r", "s", "t", "u", "v", "w", "x", "y", "z">>

CharRank(c) ==
    IF \E i \in 1..Len(CodePoints) : CodePoints[i] = c
    THEN CHOOSE i \in 1..Len(CodePoints) : CodePoints[i] = c
    ELSE 0

\* a < b for two service names: the first place where they differ decides,
\* and a proper prefix comes first
NameLess(a, b) ==
    LET differ == {k \in 1..Len(a) : k <= Len(b) /\ a[k] # b[k]}
    IN  IF differ = {} THEN Len(a) < Len(b)
        ELSE LET d == CHOOSE k \in differ : \A j \in differ : k <= j
             IN  CharRank(a[d]) < CharRank(b[d])

\* a[i] < b[i] for the fields of two results: port, status, service name
FieldLess(a, b, i) ==
    IF i = 1 THEN a[1] < b[1]
    ELSE IF i = 2 THEN StrRank(a[2]) < StrRank(b[2])
    ELSE NameLess(a[i], b[i])

\* tuple comparison a < b
RECURSIVE TupleLessFrom(_, _, _)
TupleLessFrom(a, b, i) ==
    IF i > Len(a) THEN i <= Len(b)
    ELSE IF i > Len(b) THEN FALSE
    ELSE IF FieldLess(a, b, i) THEN TRUE
    ELSE IF FieldLess(b, a, i) THEN FALSE
    ELSE TupleLessFrom(a, b, i + 1)

TupleLess(a, b) == TupleLessFrom(a, b, 1)

\* no sorting: the results in completion order
sorted_unsorted(s) == s

\* the place of s[i] in sorted(s): after every smaller element and after
\* the equal elements that precede it (the sort is stable)
SortedPlace(s, i) ==
    1 + Cardinality({j \in (1..Len(s)) \ {i} :
            \/ TupleLess(s[j], s[i])
            \/ (j < i /\ ~TupleLess(s[i], s[j]))})

\* sorted(results): stable, ascending
sorted(s) == [k \in 1..Len(s) |-> s[CHOOSE i \in 1..Len(s) : SortedPlace(s, i) = k]]

\* line 63: which entries make it into the report
included(entry) == entry[2] = "Open"

\* line 65: f'Port {port}: {status} - Service: {service_name}'
\* as the sequence of its pieces
report_line(entry) ==
    <<"Port ", entry[1], ": ", entry[2], " - Service: ",
      IF Len(entry) > 2 THEN entry[3] ELSE Unknown>>

\* the fields of a line of the report
LinePort(line) == line[2]
LineStatus(line) == line[4]
LineService(line) == line[6]

\* a line of the report that states an entry (the other lines are what
\* follows a line break inside a service name)
IsEntryLine(line) == Len(line) = 6
EntryLines(text) == SelectSeq(text, IsEntryLine)

\* lines 61-65: the list output, one item per kept entry of s, in the
\* order of s
render(s) ==
    CHOOSE output \in { [i \in 1..Len(kept) |-> report_line(kept[i])] :
                          kept \in {SelectSeq(s, included)} } : TRUE

\* the pieces of a service name between its line breaks
name_lines(name) ==
    LET breaks   == {i \in 1..Len(name) : name[i] = "\n"}
        break(k) == IF k = 0 THEN 0
                    ELSE IF k > Cardinality(breaks) THEN Len(name) + 1
                    ELSE CHOOSE b \in breaks :
                             Cardinality({c \in breaks : c < b}) = k - 1
    IN  [k \in 1..(Cardinality(breaks) + 1) |->
            SubSeq(name, break(k - 1) + 1, break(k) - 1)]

\* line 66: '\n'.join(output), as the sequence of the lines of the text. An
\* item whose service name holds a line break spreads over several lines:
\* the first ends with the first piece of the name, the others are the
\* remaining pieces
join_pieces(output, pieces) ==
    LET extras(i) == Cardinality(UNION { {<<j, k>> : k \in 2..Len(pieces[j])} :
                                          j \in 1..(i - 1) })
        start(i)  == i + extras(i)
        total     == Len(output) + extras(Len(output) + 1)
    IN  [q \in 1..total |->
            LET i == CHOOSE i \in 1..Len(output) :
                         start(i) <= q /\ q < start(i) + Len(pieces[i])
                k == q - start(i) + 1
            IN  IF k = 1 THEN [output[i] EXCEPT ![6] = pieces[i][1]]
                ELSE <<pieces[i][k]>>]

\* line 66, the names cut into their pieces once
join(output) ==
    CHOOSE text \in
        { join_pieces(output, pieces) :
            pieces \in { [i \in 1..Len(output) |-> name_lines(LineService(output[i]))] } } :
        TRUE

\* lines 61-65: the list output built from the sorted results (the
\* one-element set binds the sorted list once)
output_list(results) ==
    CHOOSE output \in { render(s) : s \in {sorted(results)} } : TRUE

\* lines 60-66: the report, one element per line of the joined text
display_results(results) ==
    CHOOSE text \in { join(output) : output \in {output_list(results)} } : TRUE

InvalidHostMessage == << <<"Invalid host address">> >>
InvalidRangeMessage == << <<"Please enter a valid port range (e.g., 20-80).">> >>

----------------------------------------------------------------------------
(* State *)

NoWorker ==
    [pc |-> "unborn", host |-> "", port_range |-> <<0, 0>>, af |-> "none",
     port |-> 0, queue |-> <<>>, running |-> {}, results |-> <<>>,
     submitted |-> <<>>, ticks |-> 0, outputs |-> <<>>,
     lookups |-> 0, exc |-> "none", families |-> {}]

\* PortScannerWorker.__init__ followed by QThread.start()
NewWorker(host, port_range) ==
    [NoWorker EXCEPT !.pc = "start", !.host = host, !.port_range = port_range]

\* line 87: the file has been read to its end when the window is up
Loaded(file) ==
    [file |-> file, pos |-> Len(file),
     table |-> load_well_known_ports(file).table,
     exc |-> load_well_known_ports(file).exc]

InitWith(b) ==
    /\ progress_bar = [minimum |-> 0, maximum |-> 100, value |-> 0]
    /\ output_area = <<>>
    /\ worker = 0
    /\ app_exc = "none"
    /\ presses = 0
    /\ budget = b
    /\ workers = [w \in Workers |-> NoWorker]
    /\ events = <<>>
    /\ target \in Targets
    /\ registry = Loaded(WellKnownFile)
    /\ last_input = "none"

Init == InitWith(1)

----------------------------------------------------------------------------
(* Signals: emitted in a worker thread, delivered later in the GUI thread *)

emit(signal, w, arg) == Append(events, [signal |-> signal, sender |-> w, arg |-> arg])

FreshWorker == Cardinality({w \in Workers : workers[w].pc # "unborn"}) + 1

----------------------------------------------------------------------------
(* PortScannerApp.scan_ports, lines 139-153: a click on the Scan button *)

scan_ports(host, text) ==
    /\ presses < budget
    /\ app_exc = "none"
    /\ presses' = presses + 1
    /\ last_input' = IF Conforming(text) THEN "conforming" ELSE "malformed"
    /\ UNCHANGED <<budget, events, target, registry>>
    /\ IF ~HasDash(text)
       THEN /\ output_area' = InvalidRangeMessage
            /\ UNCHANGED <<progress_bar, worker, app_exc, workers>>
       ELSE LET parts == Split(text)
                ints  == [i \in 1..Len(parts) |-> PyInt(parts[i])]
            IN  IF Len(parts) # 2 \/ \E i \in 1..Len(parts) : ~ints[i].ok
                THEN \* ValueError from int() or from the unpacking
                     /\ app_exc' = "ValueError"
                     /\ UNCHANGED <<progress_bar, output_area, worker, workers>>
                ELSE LET start_port == ints[1].val
                         end_port   == ints[2].val
                         id         == FreshWorker
                     IN  /\ progress_bar' =
                               setValue(setMaximum(progress_bar, end_port - start_port + 1), 0)
                         /\ workers' = [workers EXCEPT
                               ![id] = NewWorker(host, <<start_port, end_port>>)]
                         /\ worker' = id
                         /\ UNCHANGED <<output_area, app_exc>>

----------------------------------------------------------------------------
(* PortScannerWorker.run, lines 21-39 *)

\* a loop that stops one port short of end_port
in_range_exclusive(port, end_port) == port < end_port

\* line 35: range(start_port, end_port + 1) still has port to yield
in_range(port, end_port) == port <= end_port

\* the family of the last entry instead of the first
last_family(families) == families[Len(families)]

\* line 28: addr_info[0][0], the family of the first entry returned
first_family(families) == families[1]

\* lines 22-31: unpack the range, resolve the host, pick the family
Resolve(w) ==
    LET me == workers[w]
        r  == getaddrinfo(me.host)
    IN  /\ me.pc = "start"
        /\ UNCHANGED <<progress_bar, output_area, worker, app_exc, presses, budget, target, registry, last_input>>
        /\ CASE r.exc = "none" ->
                 /\ workers' = [workers EXCEPT ![w] =
                        [me EXCEPT !.lookups = @ + 1,
                                   !.af = first_family(r.families),
                                   !.port = me.port_range[1],
                                   !.pc = IF in_range(me.port_range[1], me.port_range[2])
                                          THEN "submit" ELSE "shutdown"]]
                 /\ UNCHANGED events
             [] r.exc = "gaierror" ->
                 /\ workers' = [workers EXCEPT ![w] =
                        [me EXCEPT !.lookups = @ + 1,
                                   !.outputs = Append(@, InvalidHostMessage),
                                   !.pc = "returned"]]
                 /\ events' = emit("update_output", w, InvalidHostMessage)
             [] OTHER ->
                 \* not a gaierror: the exception leaves run()
                 /\ workers' = [workers EXCEPT ![w] =
                        [me EXCEPT !.lookups = @ + 1, !.exc = r.exc, !.pc = "raised"]]
                 /\ UNCHANGED events

\* lines 35-36: one iteration of the loop, executor.submit(self.scan_port, af, port, results)
Submit(w) ==
    LET me == workers[w]
    IN  /\ me.pc = "submit"
        /\ workers' = [workers EXCEPT ![w] =
               [me EXCEPT !.queue = Append(@, [af |-> me.af, port |-> me.port]),
                          !.submitted = Append(@, me.port),
                          !.port = @ + 1,
                          !.pc = IF in_range(me.port + 1, me.port_range[2])
                                 THEN "submit" ELSE "shutdown"]]
        /\ UNCHANGED <<progress_bar, output_area, worker, app_exc, presses, budget,
                       events, target, registry, last_input>>

\* ThreadPoolExecutor(max_workers=...): a queued task starts only on a free thread
idle_thread(me) == Cardinality(me.running) < max_workers

\* a pool thread takes the oldest queued task and enters scan_port
StartProbe(w) ==
    LET me == workers[w]
    IN  /\ me.queue # <<>>
        /\ idle_thread(me)
        /\ workers' = [workers EXCEPT ![w] =
               [me EXCEPT !.queue = Tail(@),
                          !.running = @ \cup {[port |-> Head(me.queue).port,
                                                 af |-> Head(me.queue).af,
                                                 stage |-> "try",
                                                 clobbered |-> FALSE]}]]
        /\ UNCHANGED <<progress_bar, output_area, worker, app_exc, presses, budget,
                       events, target, registry, last_input>>

\* a connect without a timeout never returns from a port that does not answer
probe_completes_no_timeout(outcome) == outcome # "EWOULDBLOCK"

\* line 44: settimeout(0.2) bounds the connect, so every probe returns
probe_completes(outcome) == TRUE

\* line 23: results is a local of run(), so each worker appends to and
\* renders its own list
accumulator_of(w) == w

\* a call of getservbyport by another thread rewrites the buffer under
\* every lookup that has returned and whose name is still to be read
clobber(u) == IF u.stage = "lookup" THEN [u EXCEPT !.clobbered = TRUE] ELSE u

\* lines 42-56: the probe itself (a socket of family af, a connect). A port
\* that is not open gets its result appended; for an open port
\* getservbyport is called (line 49) and has returned: the name, or the
\* 'Unknown' of the except clause, is still to be read and appended
Probe(w, t) ==
    LET outcome == connect_ex(t.port)
        calls   == outcome = "connected"
        others(v) == {IF calls THEN clobber(u) ELSE u :
                         u \in workers[v].running \ (IF v = w THEN {t} ELSE {})}
        mine    == [t EXCEPT !.stage = IF calls THEN "lookup" ELSE "finally"]
    IN  /\ t \in workers[w].running
        /\ t.stage = "try"
        /\ probe_completes(outcome)
        /\ workers' = [v \in Workers |->
               [workers[v] EXCEPT
                  !.families = IF v = w THEN @ \cup {t.af} ELSE @,
                  !.running = IF v = w THEN others(v) \cup {mine} ELSE others(v),
                  !.results = IF v = accumulator_of(w) /\ ~calls
                              THEN list_append(@, scan_port_result(t.port, outcome, Unknown))
                              ELSE @]]
        /\ UNCHANGED <<progress_bar, output_area, worker, app_exc, presses, budget,
                       events, target, registry, last_input>>

\* lines 49-52: the name is read from the buffer, or 'Unknown' is taken
\* after OSError, and the Open result is appended
ReadService(w, t) ==
    /\ t \in workers[w].running
    /\ t.stage = "lookup"
    /\ \E service \in service_names(t.port, t.clobbered) :
           workers' = [workers EXCEPT
               ![w].running = (@ \ {t}) \cup {[t EXCEPT !.stage = "finally"]},
               ![accumulator_of(w)].results =
                   list_append(@, scan_port_result(t.port, "connected", service))]
    /\ UNCHANGED <<progress_bar, output_area, worker, app_exc, presses, budget,
                   events, target, registry, last_input>>

\* the emit placed in the try block only: skipped when the probe raised
emits_tick_unless_raised(outcome) == ~Raises(outcome)

\* lines 57-58: the emit is in the finally clause, so it runs on every path
emits_tick(outcome) == TRUE

\* lines 57-58: the finally clause, after which the pool thread is free again
EmitProgress(w, t) ==
    LET me == workers[w]
    IN  /\ t \in me.running
        /\ t.stage = "finally"
        /\ IF emits_tick(connect_ex(t.port))
           THEN /\ workers' = [workers EXCEPT ![w] =
                       [me EXCEPT !.ticks = @ + 1, !.running = @ \ {t}]]
                /\ events' = emit("update_progress", w, <<>>)
           ELSE /\ workers' = [workers EXCEPT ![w] = [me EXCEPT !.running = @ \ {t}]]
                /\ UNCHANGED events
        /\ UNCHANGED <<progress_bar, output_area, worker, app_exc, presses, budget, target, registry, last_input>>

\* a shutdown that does not wait for the tasks still running
pool_drained_nowait(me) == me.queue = <<>>

\* leaving the with block: shutdown(wait=True) returns once every task has run
pool_drained(me) == me.queue = <<>> /\ me.running = {}

\* lines 38-39: render and emit the report
Report(w) ==
    LET me  == workers[w]
        out == display_results(workers[accumulator_of(w)].results)
    IN  /\ me.pc = "shutdown"
        /\ pool_drained(me)
        /\ workers' = [workers EXCEPT ![w] =
               [me EXCEPT !.outputs = Append(@, out), !.pc = "done"]]
        /\ events' = emit("update_output", w, out)
        /\ UNCHANGED <<progress_bar, output_area, worker, app_exc, presses, budget, target, registry, last_input>>

----------------------------------------------------------------------------
(* The GUI thread runs the slot of the oldest queued signal *)

\* lines 132-134
update_progress == progress_bar' = setValue(progress_bar, progress_bar.value + 1)

\* lines 136-137
update_output(output) == output_area' = output

Deliver ==
    /\ events # <<>>
    /\ events' = Tail(events)
    /\ IF Head(events).signal = "update_progress"
       THEN update_progress /\ UNCHANGED output_area
       ELSE update_output(Head(events).arg) /\ UNCHANGED progress_bar
    /\ UNCHANGED <<worker, app_exc, presses, budget, workers, target, registry, last_input>>

----------------------------------------------------------------------------
(* Start-up: load_well_known_ports reads the reference file line by line *)

LoadLine ==
    LET r == load_line(registry.table, registry.file[registry.pos + 1])
    IN  /\ registry.exc = "none"
        /\ registry.pos < Len(registry.file)
        /\ registry' = [registry EXCEPT !.pos = @ + 1, !.table = r.table, !.exc = r.exc]
        /\ UNCHANGED <<progress_bar, output_area, worker, app_exc, presses, budget,
                       workers, events, target, last_input>>

InitLoad ==
    /\ progress_bar = [minimum |-> 0, maximum |-> 100, value |-> 0]
    /\ output_area = <<>>
    /\ worker = 0
    /\ app_exc = "none"
    /\ presses = 0
    /\ budget = 0
    /\ workers = [w \in Workers |-> NoWorker]
    /\ events = <<>>
    /\ target \in {[p \in TargetPorts |-> "connected"]}
    /\ registry \in {[file |-> f, pos |-> 0, table |-> <<>>, exc |-> "none"] :
                        f \in RegistryFiles}
    /\ last_input = "none"

NextLoad == LoadLine

SpecLoad == InitLoad /\ [][NextLoad]_vars

----------------------------------------------------------------------------

Next ==
    \/ \E host \in Hosts, text \in RangeTexts : scan_ports(host, text)
    \/ \E w \in Workers : Resolve(w)
    \/ \E w \in Workers : Submit(w)
    \/ \E w \in Workers : StartProbe(w)
    \/ \E w \in Workers : \E t \in workers[w].running : Probe(w, t)
    \/ \E w \in Workers : \E t \in workers[w].running : ReadService(w, t)
    \/ \E w \in Workers : \E t \in workers[w].running : EmitProgress(w, t)
    \/ \E w \in Workers : Report(w)
    \/ Deliver

Spec == Init /\ [][Next]_vars

\* a step of some thread: the worker's run(), a pool thread, or the GUI
\* thread delivering a queued signal
ThreadStep ==
    \/ \E w \in Workers : Resolve(w) \/ Submit(w) \/ StartProbe(w) \/ Report(w)
    \/ \E w \in Workers : \E t \in workers[w].running :
           Probe(w, t) \/ ReadService(w, t) \/ EmitProgress(w, t)
    \/ Deliver

\* the operating system keeps scheduling: while some thread can take a
\* step, some thread does
Fairness == WF_vars(ThreadStep)

SpecFair == Init /\ [][Next]_vars /\ Fairness

----------------------------------------------------------------------------
(* Two clicks on Scan: the second may come while the first worker runs *)

OverlapHosts == {"127.0.0.1", "localhost"}

OverlapTexts == { <<"0", "-", "1">>, <<"2", "-", "2">> }

InitOverlap == InitWith(2)

NextOverlap ==
    \/ \E host \in OverlapHosts, text \in OverlapTexts : scan_ports(host, text)
    \/ \E w \in Workers : Resolve(w)
    \/ \E w \in Workers : Submit(w)
    \/ \E w \in Workers : StartProbe(w)
    \/ \E w \in Workers : \E t \in workers[w].running : Probe(w, t)
    \/ \E w \in Workers : \E t \in workers[w].running : ReadService(w, t)
    \/ \E w \in Workers : \E t \in workers[w].running : EmitProgress(w, t)
    \/ \E w \in Workers : Report(w)
    \/ Deliver

SpecOverlap == InitOverlap /\ [][NextOverlap]_vars

----------------------------------------------------------------------------
(* Vocabulary of the properties *)

ValidRange(r) == r[1] <= r[2] /\ r[1] \in 0..65535 /\ r[2] \in 0..65535

RangeLen(r) == r[2] - r[1] + 1

PortsOf(r) == r[1]..r[2]

Resolvable(host) == getaddrinfo(host).exc = "none"

\* the worker has been created by scan_ports
Born(w) == workers[w].pc # "unborn"

\* the entries of a result list that are about port p
EntriesFor(results, p) == {i \in 1..Len(results) : results[i][1] = p}

StatusOf(results, p) == results[CHOOSE i \in 1..Len(results) : results[i][1] = p][2]

\* the ports a result list records as Open
OpenSet(results) == {results[i][1] : i \in {j \in 1..Len(results) : results[j][2] = "Open"}}

\* the probes of a worker that are past their append and before their tick
Finishing(w) == {t \in workers[w].running : t.stage = "finally"}

\* the probes of a worker that have not appended yet
Pending(w) == {t \in workers[w].running : t.stage \in {"try", "lookup"}}

\* a token that is a non-negative integer in decimal digits
NonNegativeInteger(tok) == tok # <<>> /\ \A i \in 1..Len(tok) : IsDigit(tok[i])

\* a line of the reference file that is an entry: not blank, not a comment,
\* at least two tokens, the second a non-negative integer
Qualifies(line) ==
    /\ Strip(line) # <<>>
    /\ line[1] # "#"
    /\ Len(SplitBlanks(line, 1, <<>>)) >= 2
    /\ NonNegativeInteger(SplitBlanks(line, 1, <<>>)[2])

\* the end-to-end scenario of ports 20-25, in one completion order
Scenario2025 ==
    << <<22, "Open", <<"s", "s", "h">>>>, <<20, "Closed">>, <<24, "Error">>,
       <<21, "Open", <<"f", "t", "p">>>>, <<25, "Closed">>, <<23, "Closed">> >>

----------------------------------------------------------------------------
\* C1: for a valid range and a host that resolves, a completed scan has
\* submitted exactly one probe per port of [start, end], in order, and has
\* emitted exactly end - start + 1 progress ticks.
C1_ProbesAndTicks ==
    \A w \in Workers :
        LET me == workers[w] IN
        (me.pc = "done" /\ ValidRange(me.port_range)) =>
            /\ Len(me.submitted) = RangeLen(me.port_range)
            /\ \A i \in 1..Len(me.submitted) :
                   me.submitted[i] = me.port_range[1] + i - 1
            /\ me.ticks = RangeLen(me.port_range)

C1_Witness ==
    \E w \in Workers :
        /\ workers[w].pc = "done"
        /\ RangeLen(workers[w].port_range) = MaxRange
        /\ workers[w].ticks = MaxRange

\* C2: once the report has been emitted, no probe of the scan is queued or
\* running and every port of the range has exactly one result, the ports
\* that ended in Error included.
C2_ReportAfterAllProbes ==
    \A w \in Workers :
        LET me == workers[w] IN
        (me.pc = "done" \/ (\E i \in 1..Len(me.outputs) : me.outputs[i] # InvalidHostMessage)) =>
            /\ me.queue = <<>>
            /\ me.running = {}
            /\ \A p \in PortsOf(me.port_range) :
                   Cardinality(EntriesFor(me.results, p)) = 1

C2_Witness ==
    \E w \in Workers :
        /\ workers[w].pc = "done"
        /\ Len(workers[w].results) >= 3
        /\ \E i \in 1..Len(workers[w].results) : workers[w].results[i][2] = "Error"

\* C3: at most max_workers probes run at once; a queued probe starts only
\* when a pool thread is free; every queued probe is eventually started.
C3_BoundedPool ==
    /\ [](\A w \in Workers : Cardinality(workers[w].running) <= max_workers)
    /\ [][\A w \in Workers :
            Len(workers[w].queue') < Len(workers[w].queue)
                => Cardinality(workers[w].running) < max_workers]_vars
    /\ <>[](\A w \in Workers : workers[w].queue = <<>>)

\* C4: under every interleaving the accumulator holds exactly one entry per
\* probe that has got past its append, never two for one port and never a
\* port outside the range; at the end it holds one entry per probed port.
C4_AccumulatorExact ==
    \A w \in Workers :
        LET me      == workers[w]
            pending == {t \in me.running : t.stage \in {"try", "lookup"}}
        IN  /\ Len(me.results) =
                   Len(me.submitted) - Len(me.queue) - Cardinality(pending)
            /\ \A i \in 1..Len(me.results) :
                   /\ me.results[i][1] \in PortsOf(me.port_range)
                   /\ EntriesFor(me.results, me.results[i][1]) = {i}
            /\ me.pc = "done" =>
                   \A p \in PortsOf(me.port_range) : EntriesFor(me.results, p) # {}

C4_Witness ==
    \E w \in Workers :
        /\ workers[w].pc = "done"
        /\ Len(workers[w].results) = MaxRange
        /\ workers[w].results[1][1] > workers[w].results[2][1]

\* C5: what display_results makes of any accumulator the scan can hold is
\* strictly ascending by port and has only Open entries: this holds of the
\* entries it renders, of the entries of the text it returns, and of the
\* entries of every report a worker has emitted.
C5_ReportSortedOpenOnly ==
    \A w \in Workers :
        LET out  == output_list(workers[w].results)
            text == EntryLines(display_results(workers[w].results))
        IN
        /\ \A i \in 1..Len(out) : LineStatus(out[i]) = "Open"
        /\ \A i \in 1..(Len(out) - 1) : LinePort(out[i]) < LinePort(out[i + 1])
        /\ Len(text) = Len(out)
        /\ \A i \in 1..Len(text) :
               /\ LinePort(text[i]) = LinePort(out[i])
               /\ LineStatus(text[i]) = "Open"
        /\ \A i \in 1..Len(workers[w].outputs) :
               LET o == EntryLines(workers[w].outputs[i]) IN
               workers[w].outputs[i] # InvalidHostMessage =>
                   /\ \A j \in 1..Len(o) : LineStatus(o[j]) = "Open"
                   /\ \A j \in 1..(Len(o) - 1) : LinePort(o[j]) < LinePort(o[j + 1])

C5_Witness ==
    \E w \in Workers :
        LET me == workers[w] IN
        /\ me.pc = "done"
        /\ Len(me.outputs[1]) >= 2
        /\ \E i \in 1..Len(me.results) : me.results[i][2] # "Open"
        /\ \E i, j \in 1..Len(me.results) :
               /\ i < j /\ me.results[i][1] > me.results[j][1]
               /\ me.results[i][2] = "Open" /\ me.results[j][2] = "Open"

\* C6: when resolution of the host fails, the worker reports the
\* invalid-host message, submits no probe and emits no tick.
C6_InvalidHostReported ==
    \A w \in Workers :
        LET me == workers[w] IN
        (me.lookups > 0 /\ ~Resolvable(me.host)) =>
            /\ me.outputs = <<InvalidHostMessage>>
            /\ me.submitted = <<>>
            /\ me.ticks = 0

\* C7: a range with start > end or a bound outside [0, 65535] is rejected
\* before host resolution and before any probe, and never ends as a scan
\* that reports.
C7_InvalidRangeRejected ==
    \A w \in Workers :
        LET me == workers[w] IN
        (Born(w) /\ ~ValidRange(me.port_range)) =>
            /\ me.lookups = 0
            /\ me.submitted = <<>>
            /\ me.pc # "done"

\* C8: a successful connect is recorded Open, a refused or timed-out one
\* Closed, any other failure Error; Error entries are recorded and are not
\* in the report.
C8_Classification ==
    \A w \in Workers :
        LET me == workers[w] IN
        /\ \A i \in 1..Len(me.results) :
               LET o == connect_ex(me.results[i][1])
                   st == me.results[i][2]
               IN  /\ o = "connected" => st = "Open"
                   /\ o \in {"ECONNREFUSED", "EWOULDBLOCK"} => st = "Closed"
                   /\ o \notin {"connected", "ECONNREFUSED", "EWOULDBLOCK"} => st = "Error"
        /\ me.pc = "done" =>
               \A j \in 1..Len(EntryLines(me.outputs[1])) :
                   StatusOf(me.results, LinePort(EntryLines(me.outputs[1])[j])) # "Error"

\* C9: the service of an open port is the OS database entry if there is
\* one, else the well_known_ports entry if there is one, else "Unknown".
C9_ServicePrecedence ==
    \A w \in Workers :
        \A i \in 1..Len(workers[w].results) :
            LET e == workers[w].results[i] IN
            e[2] = "Open" =>
                e[3] = IF e[1] \in DOMAIN etc_services THEN etc_services[e[1]]
                       ELSE IF e[1] \in DOMAIN well_known_ports THEN well_known_ports[e[1]]
                       ELSE Unknown

\* C10: under fair scheduling a scan whose host resolves always completes
\* and emits its report, whatever the probes meet.
C10_ScanCompletes ==
    \A w \in Workers :
        (workers[w].pc = "start" /\ Resolvable(workers[w].host))
            ~> (workers[w].pc = "done" /\ Len(workers[w].outputs) = 1)

C10_Witness ==
    \E w \in Workers :
        LET me == workers[w] IN
        /\ me.pc = "done"
        /\ Len(me.results) >= 2
        /\ \A i \in 1..Len(me.results) : me.results[i][2] = "Error"
        /\ Len(me.outputs) = 1

\* C11: with the outcome and service of every port fixed, two completed
\* scans over the same range emit the same report and record the same set
\* of Open ports, whatever the order in which their probes completed.
C11_ReportDeterministic ==
    \A v, w \in Workers :
        (/\ workers[v].pc = "done"
         /\ workers[w].pc = "done"
         /\ workers[v].port_range = workers[w].port_range) =>
            /\ workers[v].outputs = workers[w].outputs
            /\ OpenSet(workers[v].results) = OpenSet(workers[w].results)

\* C12: the report of a completed scan has exactly one line per port whose
\* probe was Open and no other line, each line being 'Port <p>: Open -
\* Service: <name>'; the 20-25 scenario gives the lines of 21 then 22; a
\* scan without an open port gives the empty report.
C12_ReportExact ==
    /\ \A w \in Workers :
           LET me  == workers[w]
               out == me.outputs[1]
           IN  me.pc = "done" =>
                   /\ Len(out) = Cardinality(OpenSet(me.results))
                   /\ \A i \in 1..Len(out) : IsEntryLine(out[i])
                   /\ {LinePort(out[i]) : i \in 1..Len(out)} = OpenSet(me.results)
                   /\ \A i \in 1..Len(out) :
                          \E j \in 1..Len(me.results) :
                              /\ me.results[j][2] = "Open"
                              /\ out[i] = <<"Port ", me.results[j][1], ": ", "Open",
                                            " - Service: ", me.results[j][3]>>
                   /\ OpenSet(me.results) = {} => out = <<>>
    /\ display_results(Scenario2025) =
           << <<"Port ", 21, ": ", "Open", " - Service: ", <<"f", "t", "p">>>>,
              <<"Port ", 22, ": ", "Open", " - Service: ", <<"s", "s", "h">>>> >>

\* C13: load_well_known_ports does not fail on the content of a line: it
\* never raises while reading, and once the file is read every line that
\* is an entry has its port in the table.
C13_LoadNeverFailsOnContent ==
    /\ registry.exc = "none"
    /\ registry.pos = Len(registry.file) =>
           \A i \in 1..Len(registry.file) :
               Qualifies(registry.file[i]) =>
                   PyInt(SplitBlanks(registry.file[i], 1, <<>>)[2]).val
                       \in DOMAIN registry.table

\* C14: after a click with a range text that is not "<start>-<end>" with
\* two integers, the message is on display, nothing was raised, and the
\* click has created no worker.
C14_MalformedInputRejected ==
    last_input = "malformed" =>
        /\ output_area = InvalidRangeMessage
        /\ app_exc = "none"
        /\ Cardinality({w \in Workers : Born(w)}) < presses

\* C15: every probe emits exactly one tick, on the Open, Closed and Error
\* paths alike, and only after its result is appended: the ticks of a scan
\* never exceed its results, the results not yet ticked are those of the
\* probes between append and emit, and a completed scan has one tick per
\* result.
C15_OneTickPerProbe ==
    /\ [](\A w \in Workers :
            LET me == workers[w] IN
            /\ me.ticks <= Len(me.results)
            /\ Len(me.results) - me.ticks = Cardinality(Finishing(w))
            /\ me.pc = "done" => me.ticks = Len(me.results))
    /\ [][\A w \in Workers :
            workers'[w].ticks # workers[w].ticks =>
                /\ workers'[w].ticks = workers[w].ticks + 1
                /\ workers'[w].results = workers[w].results
                /\ \E t \in Finishing(w) : workers'[w].running = workers[w].running \ {t}]_vars

C15_Witness ==
    \E w \in Workers :
        LET me == workers[w] IN
        /\ me.pc = "done"
        /\ me.ticks = 3
        /\ \E i \in 1..Len(me.results) : me.results[i][2] = "Open"
        /\ \E i \in 1..Len(me.results) : me.results[i][2] = "Closed"
        /\ \E i \in 1..Len(me.results) : me.results[i][2] = "Error"

\* C16: the family of a scan is the family of the first entry resolution
\* returned, it is set before any probe is submitted and never changes, and
\* every probe of the scan, queued, running or finished, used that family.
C16_FamilyChosenOnce ==
    /\ [](\A w \in Workers :
            LET me == workers[w] IN
            /\ me.af # "none" => me.af = getaddrinfo(me.host).families[1]
            /\ me.submitted # <<>> => me.af # "none"
            /\ \A i \in 1..Len(me.queue) : me.queue[i].af = me.af
            /\ \A t \in me.running : t.af = me.af
            /\ me.families \subseteq {me.af})
    /\ [][\A w \in Workers :
            workers[w].af # "none" => workers'[w].af = workers[w].af]_vars

C16_Witness ==
    \E w \in Workers :
        LET me == workers[w] IN
        /\ me.pc = "done"
        /\ me.host = "localhost"
        /\ Len(getaddrinfo(me.host).families) = 2
        /\ me.families = {"AF_INET6"}
        /\ Len(me.results) >= 2

\* the names the lookups of a worker's own scan can make it record for
\* port p: a lookup of another open port of its range can rewrite the buffer
OwnNames(w, p) ==
    service_names(p, \E q \in PortsOf(workers[w].port_range) \ {p} :
                         connect_ex(q) = "connected")

\* C17: when two scans overlap, each keeps its own accumulator and family:
\* a worker's accumulator holds exactly the results of its own probes, all
\* on ports of its own range, with the outcome and the service name its own
\* probes can produce, its probes used the family of its own host, and its
\* report is rendered from its own accumulator.
C17_ScansIndependent ==
    \A w \in Workers :
        LET me == workers[w] IN
        /\ Len(me.results) = Len(me.submitted) - Len(me.queue) - Cardinality(Pending(w))
        /\ \A i \in 1..Len(me.results) :
               /\ me.results[i][1] \in PortsOf(me.port_range)
               /\ me.results[i] \in
                      { scan_port_result(me.results[i][1],
                                         connect_ex(me.results[i][1]), service) :
                            service \in OwnNames(w, me.results[i][1]) }
        /\ Born(w) /\ Resolvable(me.host) =>
               me.families \subseteq {getaddrinfo(me.host).families[1]}
        /\ me.pc = "done" =>
               /\ me.outputs = <<display_results(me.results)>>
               /\ \A i \in 1..Len(EntryLines(me.outputs[1])) :
                      LinePort(EntryLines(me.outputs[1])[i]) \in PortsOf(me.port_range)
               /\ Len(me.results) = RangeLen(me.port_range)

\* C18: the value of the progress bar is at every moment at most the number
\* of probes the most recently started scan has completed.
C18_BarCountsLatestScan ==
    worker # 0 => progress_bar.value <= Len(workers[worker].results)

\* C19: a worker that has stopped has emitted update_output exactly once,
\* no worker emits it twice, and once it is emitted the worker has no probe
\* left that could still tick.
C19_OneTerminalOutput ==
    \A w \in Workers :
        LET me == workers[w] IN
        /\ Len(me.outputs) <= 1
        /\ me.pc \in {"done", "returned", "raised"} => Len(me.outputs) = 1
        /\ me.outputs # <<>> => me.queue = <<>> /\ me.running = {}

====
